---- MODULE Spec2Model ----
(***************************************************************************)
(* Model of taichi/analysis/gather_uniquely_accessed_pointers.cpp:         *)
(*   LoopUniqueStmtSearcher            (Value-Uniqueness Propagator)       *)
(*   UniquelyAccessedSNodeSearcher     (Access-Uniqueness Resolver)        *)
(*   UniquelyAccessedBitStructGatherer (Sub-Field Aggregator)              *)
(*                                                                         *)
(* Statements of a task body are identified by their position in the      *)
(* traversal order (a topological order of the expression DAG), so an      *)
(* operand is always a smaller position than the statement that uses it.   *)
(***************************************************************************)
EXTENDS Integers, Sequences, FiniteSets, TLC

VARIABLES
  pc,                         \* where the pass is
  root,                       \* the IRNode handed to run
  body,                       \* value statements visited so far, in order
  loop_invariant_,            \* LoopUniqueStmtSearcher::loop_invariant_
  loop_unique_,               \* LoopUniqueStmtSearcher::loop_unique_
  num_different_loop_indices, \* LoopUniqueStmtSearcher::num_different_loop_indices
  ptrs,                       \* GlobalPtrStmts visited so far, in order
  accessed_pointer_,          \* UniquelyAccessedSNodeSearcher::accessed_pointer_
  same_address,               \* answers of definitely_same_address, by pair
  oracle_calls,               \* calls made to definitely_same_address
  fault,                      \* the fatal assertion that stopped the pass
  same_value,                 \* pairs of statements same_value answers yes for
  program,                    \* statements the Aggregator has reached, by place
  pending,                    \* statements its traversal is to reach next
  result_,                    \* UniquelyAccessedBitStructGatherer::result_
  loop_unique_ptr,            \* visit(OffloadedStmt*): loop_unique_ptr
  unvisited,                  \* keys of loop_unique_ptr the for loop has yet to reach
  it,                         \* the key the for loop is at
  analyzed,                   \* tasks handed to gather_uniquely_accessed_pointers
  trail,                      \* the entries the for loop came to, in order, by task
  again                       \* what a second run over the same root gives

propagatorVars == <<body, loop_invariant_, loop_unique_, num_different_loop_indices>>
resolverVars == <<ptrs, accessed_pointer_, same_address, oracle_calls>>
gathererVars ==
  <<same_value, program, pending, result_, loop_unique_ptr, unvisited, it, analyzed,
    trail, again>>
vars == <<pc, root, propagatorVars, resolverVars, fault, gathererVars>>

----------------------------------------------------------------------------
(* Bounds of the model.                                                    *)

\* longest task body (value statements) the Propagator traverses
MaxStmts == 3
\* longest index tuple of a storage access whose loop-uniqueness is queried
MaxIndices == 3
\* most storage accesses in one task body the Resolver visits
MaxAccesses == 3
\* most statements the Aggregator reaches at the top level
MaxTasks == 2

----------------------------------------------------------------------------
(* The external IR and storage tree, as far as the pass reads them.        *)

\* a null GlobalPtrStmt*; statements are numbered from 1
nullptr == 0
\* a null SNode*
NoSNode == "nullptr"
noFault == "none"

EmptyMap == << >>

Put(m, k, v) == (k :> v) @@ m

\* The storage tree: parent links, the packed sub-field flag, and the number
\* of active dimensions.
SNodeTree ==
  ("root"   :> [parent |-> NoSNode,  is_bit_level |-> FALSE, num_active_indices |-> 0]) @@
  ("dense1" :> [parent |-> "root",   is_bit_level |-> FALSE, num_active_indices |-> 1]) @@
  ("dense2" :> [parent |-> "root",   is_bit_level |-> FALSE, num_active_indices |-> 2]) @@
  ("place"  :> [parent |-> "dense2", is_bit_level |-> FALSE, num_active_indices |-> 2]) @@
  ("bs"     :> [parent |-> "dense2", is_bit_level |-> FALSE, num_active_indices |-> 2]) @@
  ("f1"     :> [parent |-> "bs",     is_bit_level |-> TRUE,  num_active_indices |-> 2]) @@
  ("f2"     :> [parent |-> "bs",     is_bit_level |-> TRUE,  num_active_indices |-> 2]) @@
  ("g"      :> [parent |-> "f1",     is_bit_level |-> TRUE,  num_active_indices |-> 2]) @@
  ("bs2"    :> [parent |-> "dense2", is_bit_level |-> FALSE, num_active_indices |-> 2]) @@
  ("h"      :> [parent |-> "bs2",    is_bit_level |-> TRUE,  num_active_indices |-> 2])

OffloadedTaskType == {"serial", "range_for", "mesh_for", "struct_for"}

\* Task boundaries: a struct_for carries the node it iterates over.
OffloadedStmts ==
  {[kind |-> "OffloadedStmt", task_type |-> t, snode |-> NoSNode] :
     t \in OffloadedTaskType \ {"struct_for"}} \cup
  {[kind |-> "OffloadedStmt", task_type |-> "struct_for", snode |-> n] :
     n \in {"dense1", "dense2"}}

\* Roots that run can be handed: a task boundary, or some other IR node.
IRNodes == OffloadedStmts \cup {[kind |-> "Block"]}

\* The loop a LoopIndexStmt belongs to: the task boundary under analysis,
\* another task boundary, or a loop statement inside the body.
Loops ==
  ("offload"   :> [kind |-> "OffloadedStmt"]) @@
  ("enclosing" :> [kind |-> "OffloadedStmt"]) @@
  ("inner"     :> [kind |-> "RangeForStmt"])

UnaryOpType == {"neg", "abs"}
BinaryOpType == {"add", "sub", "bit_xor", "mul"}

ConstStmts == {[kind |-> "ConstStmt"]}
LoopUniqueStmts == {[kind |-> "LoopUniqueStmt"]}
LoopIndexStmts ==
  {[kind |-> "LoopIndexStmt", loop |-> "offload", index |-> d] : d \in {0, 1}} \cup
  {[kind |-> "LoopIndexStmt", loop |-> l, index |-> 0] : l \in {"enclosing", "inner"}}
\* a statement no visitor of the Propagator handles
OtherStmts == {[kind |-> "GlobalLoadStmt"]}
UnaryOpStmts(n) ==
  {[kind |-> "UnaryOpStmt", op_type |-> o, operand |-> a] :
     o \in UnaryOpType, a \in 1..n}
BinaryOpStmts(n) ==
  {[kind |-> "BinaryOpStmt", op_type |-> o, lhs |-> a, rhs |-> b] :
     o \in BinaryOpType, a \in 1..n, b \in 1..n}

----------------------------------------------------------------------------
(* LoopUniqueStmtSearcher.  A searcher s is the pair of its two maps; id   *)
(* is the visited statement.                                               *)

LoopUniqueStmtSearcher ==
  [loop_invariant_ |-> {}, loop_unique_ |-> EmptyMap, num_different_loop_indices |-> -1]

\* the searcher the state holds
loop_unique_stmt_searcher_ ==
  [loop_invariant_ |-> loop_invariant_, loop_unique_ |-> loop_unique_,
   num_different_loop_indices |-> num_different_loop_indices]

visit_LoopIndexStmt(s, id, stmt) ==
  IF Loops[stmt.loop].kind = "OffloadedStmt"
    THEN [s EXCEPT !.loop_unique_ = Put(@, id, stmt.index)]
    ELSE s

visit_LoopUniqueStmt(s, id, stmt) ==
  [s EXCEPT !.loop_unique_ = Put(@, id, -1)]

visit_ConstStmt(s, id, stmt) ==
  [s EXCEPT !.loop_invariant_ = @ \cup {id}]

visit_UnaryOpStmt(s, id, stmt) ==
  LET s1 == IF stmt.operand \in s.loop_invariant_
              THEN [s EXCEPT !.loop_invariant_ = @ \cup {id}]
              ELSE s
  IN  IF stmt.operand \in DOMAIN s1.loop_unique_ /\ stmt.op_type = "neg"
        THEN [s1 EXCEPT !.loop_unique_ = Put(@, id, s1.loop_unique_[stmt.operand])]
        ELSE s1

PropagatingBinaryOp(op_type) == op_type \in {"add", "sub", "bit_xor"}

\* visit(BinaryOpStmt*) without its second tagging branch (lines 74-81)
visit_BinaryOpStmt_lhs_only(s, id, stmt) ==
  LET s1 == IF stmt.lhs \in s.loop_invariant_ /\ stmt.rhs \in s.loop_invariant_
              THEN [s EXCEPT !.loop_invariant_ = @ \cup {id}]
              ELSE s
  IN  IF /\ stmt.lhs \in DOMAIN s1.loop_unique_
         /\ stmt.rhs \in s1.loop_invariant_
         /\ PropagatingBinaryOp(stmt.op_type)
        THEN [s1 EXCEPT !.loop_unique_ = Put(@, id, s1.loop_unique_[stmt.lhs])]
        ELSE s1

\* visit(BinaryOpStmt*) with || for && in the invariance test (lines 59-60)
visit_BinaryOpStmt_either_invariant(s, id, stmt) ==
  LET s1 == IF stmt.lhs \in s.loop_invariant_ \/ stmt.rhs \in s.loop_invariant_
              THEN [s EXCEPT !.loop_invariant_ = @ \cup {id}]
              ELSE s
      s2 == IF /\ stmt.lhs \in DOMAIN s1.loop_unique_
               /\ stmt.rhs \in s1.loop_invariant_
               /\ PropagatingBinaryOp(stmt.op_type)
              THEN [s1 EXCEPT !.loop_unique_ = Put(@, id, s1.loop_unique_[stmt.lhs])]
              ELSE s1
  IN  IF /\ stmt.lhs \in s2.loop_invariant_
         /\ stmt.rhs \in DOMAIN s2.loop_unique_
         /\ PropagatingBinaryOp(stmt.op_type)
        THEN [s2 EXCEPT !.loop_unique_ = Put(@, id, s2.loop_unique_[stmt.rhs])]
        ELSE s2

visit_BinaryOpStmt(s, id, stmt) ==
  LET s1 == IF stmt.lhs \in s.loop_invariant_ /\ stmt.rhs \in s.loop_invariant_
              THEN [s EXCEPT !.loop_invariant_ = @ \cup {id}]
              ELSE s
      s2 == IF /\ stmt.lhs \in DOMAIN s1.loop_unique_
               /\ stmt.rhs \in s1.loop_invariant_
               /\ PropagatingBinaryOp(stmt.op_type)
              THEN [s1 EXCEPT !.loop_unique_ = Put(@, id, s1.loop_unique_[stmt.lhs])]
              ELSE s1
  IN  IF /\ stmt.lhs \in s2.loop_invariant_
         /\ stmt.rhs \in DOMAIN s2.loop_unique_
         /\ PropagatingBinaryOp(stmt.op_type)
        THEN [s2 EXCEPT !.loop_unique_ = Put(@, id, s2.loop_unique_[stmt.rhs])]
        ELSE s2

\* allow_undefined_visitor: a statement of any other kind is passed over
visit_Stmt(s, id, stmt) == s

\* dispatch of one statement to its visitor
LoopUniqueStmtSearcher_visit(s, id, stmt) ==
  CASE stmt.kind = "LoopIndexStmt"  -> visit_LoopIndexStmt(s, id, stmt)
    [] stmt.kind = "LoopUniqueStmt" -> visit_LoopUniqueStmt(s, id, stmt)
    [] stmt.kind = "ConstStmt"      -> visit_ConstStmt(s, id, stmt)
    [] stmt.kind = "UnaryOpStmt"    -> visit_UnaryOpStmt(s, id, stmt)
    [] stmt.kind = "BinaryOpStmt"   -> visit_BinaryOpStmt(s, id, stmt)
    [] OTHER                        -> visit_Stmt(s, id, stmt)

\* root->accept(&loop_unique_stmt_searcher_): the statements of b from
\* position k on, in order
RECURSIVE LoopUniqueStmtSearcher_accept(_, _, _)
LoopUniqueStmtSearcher_accept(s, b, k) ==
  IF k > Len(b)
    THEN s
    ELSE LoopUniqueStmtSearcher_accept(LoopUniqueStmtSearcher_visit(s, k, b[k]), b, k + 1)

\* lines 90-101: the scan of the index tuple from position k on; ret is the
\* early return on a LoopUniqueStmt index
RECURSIVE scan_indices(_, _, _, _)
scan_indices(s, indices, k, loop_indices) ==
  IF k > Len(indices)
    THEN [ret |-> FALSE, loop_indices |-> loop_indices]
    ELSE IF indices[k] \in DOMAIN s.loop_unique_
      THEN IF s.loop_unique_[indices[k]] = -1
             THEN [ret |-> TRUE, loop_indices |-> loop_indices]
             ELSE scan_indices(s, indices, k + 1,
                               Append(loop_indices, s.loop_unique_[indices[k]]))
      ELSE scan_indices(s, indices, k + 1, loop_indices)

\* x put into the sorted sequence v
RECURSIVE insert_sorted(_, _)
insert_sorted(v, x) ==
  IF v = << >> \/ x <= Head(v)
    THEN <<x>> \o v
    ELSE <<Head(v)>> \o insert_sorted(Tail(v), x)

RECURSIVE std_sort(_)
std_sort(v) == IF v = << >> THEN v ELSE insert_sorted(std_sort(Tail(v)), Head(v))

\* std::unique: one element of every run of equal neighbours is kept
RECURSIVE std_unique(_)
std_unique(v) ==
  IF Len(v) <= 1
    THEN v
    ELSE IF v[1] = v[2]
      THEN std_unique(Tail(v))
      ELSE <<v[1]>> \o std_unique(Tail(v))

\* TI_ASSERT(num_different_loop_indices != -1)
is_ptr_indices_loop_unique_assert(s) == s.num_different_loop_indices # -1

\* is_ptr_indices_loop_unique without the std::sort of line 102
is_ptr_indices_loop_unique_unsorted(s, stmt) ==
  LET scan == scan_indices(s, stmt.indices, 1, << >>)
      current_num_different_loop_indices == Len(std_unique(scan.loop_indices))
  IN  \/ scan.ret
      \/ current_num_different_loop_indices = s.num_different_loop_indices

is_ptr_indices_loop_unique(s, stmt) ==
  LET scan == scan_indices(s, stmt.indices, 1, << >>)
      current_num_different_loop_indices == Len(std_unique(std_sort(scan.loop_indices)))
  IN  \/ scan.ret
      \/ current_num_different_loop_indices = s.num_different_loop_indices

----------------------------------------------------------------------------
(* UniquelyAccessedSNodeSearcher.  A GlobalPtrStmt is identified by its     *)
(* position among the accesses of the task body.  A searcher r holds       *)
(* accessed_pointer_, the calls made to the oracle and the failed          *)
(* assertion, if any.                                                      *)

UniquelyAccessedSNodeSearcher ==
  [accessed_pointer_ |-> EmptyMap, oracle_calls |-> {}, fault |-> noFault]

\* irpass::analysis::definitely_same_address (external): o holds its answer
\* for every pair of accesses.  Its answer for a null first argument cannot
\* change the map, the entry being null already.
definitely_same_address(o, ptr1, ptr2) ==
  <<ptr1, ptr2>> \in DOMAIN o /\ o[<<ptr1, ptr2>>]

\* lines 132-144 with a null entry taken for a missing one
visit_GlobalPtrStmt_snode_null_as_absent(r, s, o, id, stmt, snode) ==
  IF snode \notin DOMAIN r.accessed_pointer_ \/ r.accessed_pointer_[snode] = nullptr
    THEN IF is_ptr_indices_loop_unique(s, stmt)
           THEN [r EXCEPT !.accessed_pointer_ = Put(@, snode, id)]
           ELSE [r EXCEPT !.accessed_pointer_ = Put(@, snode, nullptr)]
    ELSE LET accessed_ptr == r.accessed_pointer_[snode]
             called == [r EXCEPT !.oracle_calls = @ \cup {<<snode, accessed_ptr, id>>}]
         IN  IF ~definitely_same_address(o, accessed_ptr, id)
               THEN [called EXCEPT !.accessed_pointer_ = Put(@, snode, nullptr)]
               ELSE called

\* lines 132-144 with the entry moved to the access just visited when the
\* oracle answers yes
visit_GlobalPtrStmt_snode_keep_latest(r, s, o, id, stmt, snode) ==
  IF snode \notin DOMAIN r.accessed_pointer_
    THEN IF is_ptr_indices_loop_unique(s, stmt)
           THEN [r EXCEPT !.accessed_pointer_ = Put(@, snode, id)]
           ELSE [r EXCEPT !.accessed_pointer_ = Put(@, snode, nullptr)]
    ELSE LET accessed_ptr == r.accessed_pointer_[snode]
             called == [r EXCEPT !.oracle_calls = @ \cup {<<snode, accessed_ptr, id>>}]
         IN  IF ~definitely_same_address(o, accessed_ptr, id)
               THEN [called EXCEPT !.accessed_pointer_ = Put(@, snode, nullptr)]
               ELSE [called EXCEPT !.accessed_pointer_ = Put(@, snode, id)]

\* lines 132-144 with the two branches of line 134 exchanged
visit_GlobalPtrStmt_snode_swapped(r, s, o, id, stmt, snode) ==
  IF snode \notin DOMAIN r.accessed_pointer_
    THEN IF is_ptr_indices_loop_unique(s, stmt)
           THEN [r EXCEPT !.accessed_pointer_ = Put(@, snode, nullptr)]
           ELSE [r EXCEPT !.accessed_pointer_ = Put(@, snode, id)]
    ELSE LET accessed_ptr == r.accessed_pointer_[snode]
             called == [r EXCEPT !.oracle_calls = @ \cup {<<snode, accessed_ptr, id>>}]
         IN  IF ~definitely_same_address(o, accessed_ptr, id)
               THEN [called EXCEPT !.accessed_pointer_ = Put(@, snode, nullptr)]
               ELSE called

\* lines 132-144: one candidate node of the access
visit_GlobalPtrStmt_snode(r, s, o, id, stmt, snode) ==
  IF snode \notin DOMAIN r.accessed_pointer_
    THEN IF ~is_ptr_indices_loop_unique_assert(s)
           THEN [r EXCEPT !.fault = "TI_ASSERT(num_different_loop_indices != -1)"]
           ELSE IF is_ptr_indices_loop_unique(s, stmt)
             THEN [r EXCEPT !.accessed_pointer_ = Put(@, snode, id)]
             ELSE [r EXCEPT !.accessed_pointer_ = Put(@, snode, nullptr)]
    ELSE LET accessed_ptr == r.accessed_pointer_[snode]
             called == [r EXCEPT !.oracle_calls = @ \cup {<<snode, accessed_ptr, id>>}]
         IN  IF ~definitely_same_address(o, accessed_ptr, id)
               THEN [called EXCEPT !.accessed_pointer_ = Put(@, snode, nullptr)]
               ELSE called

\* lines 130-146 with the loop of line 131 stopping after the first node
visit_GlobalPtrStmt_first_snode(r, s, o, id, stmt, k) ==
  IF Len(stmt.snodes) = 0
    THEN r
    ELSE visit_GlobalPtrStmt_snode(r, s, o, id, stmt, stmt.snodes[1])

\* lines 130-146: the candidate nodes from position k on, until an assertion fails
RECURSIVE visit_GlobalPtrStmt(_, _, _, _, _, _)
visit_GlobalPtrStmt(r, s, o, id, stmt, k) ==
  IF k > Len(stmt.snodes) \/ r.fault # noFault
    THEN r
    ELSE visit_GlobalPtrStmt(visit_GlobalPtrStmt_snode(r, s, o, id, stmt, stmt.snodes[k]),
                             s, o, id, stmt, k + 1)

\* root->accept(&searcher): the accesses of p from position k on, in order
RECURSIVE UniquelyAccessedSNodeSearcher_accept(_, _, _, _, _)
UniquelyAccessedSNodeSearcher_accept(r, s, o, p, k) ==
  IF k > Len(p) \/ r.fault # noFault
    THEN r
    ELSE UniquelyAccessedSNodeSearcher_accept(visit_GlobalPtrStmt(r, s, o, k, p[k], 1),
                                              s, o, p, k + 1)

\* lines 152-161 without the else branch of lines 158-161
run_num_different_loop_indices_no_serial(offload) ==
  IF offload.task_type \in {"range_for", "mesh_for"}
    THEN 1
    ELSE IF offload.task_type = "struct_for"
      THEN SNodeTree[offload.snode].num_active_indices
      ELSE -1

\* lines 152-161 with a serial task counted as a loop of one index
run_num_different_loop_indices_serial_as_range(offload) ==
  IF offload.task_type = "struct_for"
    THEN SNodeTree[offload.snode].num_active_indices
    ELSE 1

\* lines 152-161: the number of loop indices of the task
run_num_different_loop_indices(offload) ==
  IF offload.task_type \in {"range_for", "mesh_for"}
    THEN 1
    ELSE IF offload.task_type = "struct_for"
      THEN SNodeTree[offload.snode].num_active_indices
      ELSE 0

\* TI_ASSERT(root->is<OffloadedStmt>())
run_assert(r) == r.kind = "OffloadedStmt"

\* The value statements of the task bodies whose accesses are analysed: the
\* kinds of index a tag can tell apart (the two loop indices, a loop-unique
\* hint, a constant) and a second constant of the same value.
TaskStmts ==
  << [kind |-> "LoopIndexStmt", loop |-> "offload", index |-> 0],
     [kind |-> "LoopIndexStmt", loop |-> "offload", index |-> 1],
     [kind |-> "LoopUniqueStmt"],
     [kind |-> "ConstStmt"],
     [kind |-> "ConstStmt"] >>

\* lines 151-162: the LoopUniqueStmtSearcher of run on task r, after its
\* traversal of the body
run_loop_unique_stmt_searcher(r) ==
  LoopUniqueStmtSearcher_accept(
    [LoopUniqueStmtSearcher EXCEPT !.num_different_loop_indices =
                                     run_num_different_loop_indices(r)],
    TaskStmts, 1)

\* irpass::analysis::same_value (external): sv holds the pairs of
\* statements it answers yes for
SameValue(sv, stmt1, stmt2) == <<stmt1, stmt2>> \in sv

\* same_value oracles: a statement has its own value; the two constants
\* may or may not be found equal
SameStatement == {<<a, a>> : a \in 1..Len(TaskStmts)}
SameValueOracles == {SameStatement, SameStatement \cup {<<4, 5>>, <<5, 4>>}}

----------------------------------------------------------------------------
(* The Propagator, one visited statement at a time.                        *)

InitRun ==
  /\ pc = "start"
  /\ root = [kind |-> "none"]
  /\ body = << >>
  /\ loop_invariant_ = LoopUniqueStmtSearcher.loop_invariant_
  /\ loop_unique_ = LoopUniqueStmtSearcher.loop_unique_
  /\ num_different_loop_indices = LoopUniqueStmtSearcher.num_different_loop_indices
  /\ ptrs = << >>
  /\ accessed_pointer_ = UniquelyAccessedSNodeSearcher.accessed_pointer_
  /\ same_address = EmptyMap
  /\ oracle_calls = UniquelyAccessedSNodeSearcher.oracle_calls
  /\ fault = noFault
  /\ program = EmptyMap
  /\ pending = << >>
  /\ result_ = EmptyMap
  /\ loop_unique_ptr = EmptyMap
  /\ unvisited = {}
  /\ it = NoSNode
  /\ analyzed = << >>
  /\ trail = << >>
  /\ again = << >>

Init == InitRun /\ same_value = SameStatement

\* lines 148-161: run is entered with r; the traversal of line 162 follows
run_enter(r) ==
  /\ pc = "start"
  /\ root' = r
  /\ IF run_assert(r)
       THEN /\ num_different_loop_indices' = run_num_different_loop_indices(r)
            /\ pc' = "loop_unique_stmt_searcher"
            /\ fault' = fault
       ELSE /\ num_different_loop_indices' = num_different_loop_indices
            /\ pc' = "abort"
            /\ fault' = "TI_ASSERT(root->is<OffloadedStmt>())"
  /\ UNCHANGED <<body, loop_invariant_, loop_unique_, resolverVars, gathererVars>>

\* line 162: the traversal reaches stmt, the next statement of the body
Traverse(stmt) ==
  /\ pc = "loop_unique_stmt_searcher"
  /\ Len(body) < MaxStmts
  /\ LET s == LoopUniqueStmtSearcher_visit(loop_unique_stmt_searcher_, Len(body) + 1, stmt)
     IN  /\ loop_invariant_' = s.loop_invariant_
         /\ loop_unique_' = s.loop_unique_
  /\ body' = Append(body, stmt)
  /\ UNCHANGED <<pc, root, num_different_loop_indices, resolverVars, fault, gathererVars>>

VisitLoopIndexStmt == \E stmt \in LoopIndexStmts : Traverse(stmt)
VisitLoopUniqueStmt == \E stmt \in LoopUniqueStmts : Traverse(stmt)
VisitConstStmt == \E stmt \in ConstStmts : Traverse(stmt)
VisitUnaryOpStmt == \E stmt \in UnaryOpStmts(Len(body)) : Traverse(stmt)
VisitBinaryOpStmt == \E stmt \in BinaryOpStmts(Len(body)) : Traverse(stmt)
VisitStmt == \E stmt \in OtherStmts : Traverse(stmt)

RunEnter == \E r \in IRNodes : run_enter(r)

NextPropagator ==
  \/ RunEnter
  \/ VisitLoopIndexStmt
  \/ VisitLoopUniqueStmt
  \/ VisitConstStmt
  \/ VisitUnaryOpStmt
  \/ VisitBinaryOpStmt
  \/ VisitStmt

SpecPropagator == Init /\ [][NextPropagator]_vars

----------------------------------------------------------------------------
(* The Resolver, one visited access at a time.                             *)

\* index tuples of at most n statements of TaskStmts
RECURSIVE IndexTuples(_)
IndexTuples(n) ==
  IF n = 0
    THEN {<< >>}
    ELSE IndexTuples(n - 1) \cup
         {Append(t, i) : t \in {u \in IndexTuples(n - 1) : Len(u) = n - 1},
                         i \in 1..Len(TaskStmts)}

GlobalPtrStmts(indices, snodes) ==
  {[kind |-> "GlobalPtrStmt", indices |-> i, snodes |-> n] : i \in indices, n \in snodes}

\* the accesses of the Resolver's tasks: [i, j] or [i, i], to one or both
\* of two sub-fields
ResolverPtrs ==
  GlobalPtrStmts({<<1, 2>>, <<1, 1>>},
                 {<<"f1">>, <<"f2">>, <<"f1", "f2">>, <<"f2", "f1">>})

\* the accesses whose loop-uniqueness is queried: any index tuple, one node
QueryPtrs == GlobalPtrStmts(IndexTuples(MaxIndices), {<<"f1">>})

searcher ==
  [accessed_pointer_ |-> accessed_pointer_, oracle_calls |-> oracle_calls,
   fault |-> fault]

\* lines 148-162: run on r, up to the end of the Propagator's traversal of
\* the task body
run(r) ==
  /\ pc = "start"
  /\ root' = r
  /\ IF run_assert(r)
       THEN LET s == run_loop_unique_stmt_searcher(r)
            IN  /\ body' = TaskStmts
                /\ loop_invariant_' = s.loop_invariant_
                /\ loop_unique_' = s.loop_unique_
                /\ num_different_loop_indices' = s.num_different_loop_indices
                /\ pc' = "searcher"
                /\ fault' = fault
       ELSE /\ UNCHANGED propagatorVars
            /\ pc' = "abort"
            /\ fault' = "TI_ASSERT(root->is<OffloadedStmt>())"
  /\ UNCHANGED <<resolverVars, gathererVars>>

\* line 163: the traversal reaches stmt, the next access of the body; answers
\* holds what definitely_same_address says of each earlier access and stmt
Search(stmt, answers) ==
  /\ pc = "searcher"
  /\ LET id == Len(ptrs) + 1
         o == [pair \in {<<p, id>> : p \in 1..Len(ptrs)} |-> answers[pair[1]]] @@ same_address
         r == visit_GlobalPtrStmt(searcher, loop_unique_stmt_searcher_, o, id, stmt, 1)
     IN  /\ ptrs' = Append(ptrs, stmt)
         /\ same_address' = o
         /\ accessed_pointer_' = r.accessed_pointer_
         /\ oracle_calls' = r.oracle_calls
         /\ fault' = r.fault
         /\ pc' = IF r.fault = noFault THEN pc ELSE "abort"
  /\ UNCHANGED <<root, propagatorVars, gathererVars>>

Run == \E r \in IRNodes : run(r)

VisitGlobalPtrStmt ==
  /\ Len(ptrs) < MaxAccesses
  /\ \E stmt \in ResolverPtrs, answers \in [1..Len(ptrs) -> BOOLEAN] :
       Search(stmt, answers)

\* the first access of a body, with any index tuple
VisitFirstGlobalPtrStmt ==
  /\ Len(ptrs) = 0
  /\ \E stmt \in QueryPtrs : Search(stmt, << >>)

NextResolver == Run \/ VisitGlobalPtrStmt

SpecResolver == Init /\ [][NextResolver]_vars

NextQuery == Run \/ VisitFirstGlobalPtrStmt

\* the tasks and accesses whose visiting orders are compared: a struct_for
\* over two dimensions, with accesses [i, j] or [i, i] to one or both of
\* two sub-fields
OrderRoots == {r \in OffloadedStmts : r.snode = "dense2"}
OrderPtrs ==
  GlobalPtrStmts({<<1, 2>>, <<1, 1>>}, {<<"f1">>, <<"f2">>, <<"f1", "f2">>})

RunStructFor == \E r \in OrderRoots : run(r)

VisitOrderedGlobalPtrStmt ==
  /\ Len(ptrs) < MaxAccesses
  /\ \E stmt \in OrderPtrs, answers \in [1..Len(ptrs) -> BOOLEAN] :
       Search(stmt, answers)

NextOrder == RunStructFor \/ VisitOrderedGlobalPtrStmt

SpecOrder == Init /\ [][NextOrder]_vars

SpecQuery == Init /\ [][NextQuery]_vars

----------------------------------------------------------------------------
(* The Aggregator: UniquelyAccessedBitStructGatherer.  A statement is      *)
(* known by its place in the order the traversal reaches statements; an    *)
(* access of a task by its place in the task's body.                       *)

\* a task boundary with its body: the accesses, what definitely_same_address
\* says of them, and the task boundaries nested in it
Task(offload, p, o, nested) ==
  [kind |-> "OffloadedStmt", task_type |-> offload.task_type, snode |-> offload.snode,
   ptrs |-> p, same_address |-> o, offloads |-> nested]

P(indices, snode) ==
  [kind |-> "GlobalPtrStmt", indices |-> indices, snodes |-> <<snode>>]

\* pairs of accesses of p that share a candidate node
SharingPairs(p) ==
  {pair \in (1..Len(p)) \X (1..Len(p)) :
     /\ pair[1] < pair[2]
     /\ \E a \in 1..Len(p[pair[1]].snodes), b \in 1..Len(p[pair[2]].snodes) :
          p[pair[1]].snodes[a] = p[pair[2]].snodes[b]}

Tasks(offload, bodies, nested) ==
  UNION {{Task(offload, p, o, nested) : o \in [SharingPairs(p) -> BOOLEAN]} : p \in bodies}

OffloadedStmtOf(t, n) == [kind |-> "OffloadedStmt", task_type |-> t, snode |-> n]

\* bodies of a struct_for over two dimensions (1 = i, 2 = j, 3 = a
\* loop-unique hint, 4 and 5 = constants)
StructForBodies ==
  { << >>,
    <<P(<<1, 2>>, "f1"), P(<<1, 2>>, "f2")>>,
    <<P(<<1, 2>>, "f1"), P(<<2, 1>>, "f2")>>,
    <<P(<<1, 1>>, "f1"), P(<<1, 2>>, "f2")>>,
    <<P(<<1, 2>>, "f1"), P(<<3>>, "f2")>>,
    <<P(<<1, 2>>, "g"), P(<<1, 2>>, "bs"), P(<<1, 1>>, "place"), P(<<2, 1>>, "h")>>,
    <<P(<<1, 1>>, "f1"), P(<<1, 2>>, "f2"), P(<<1, 2>>, "g")>>,
    <<P(<<1, 2, 4>>, "f1"), P(<<1, 2, 5>>, "f2")>>,
    <<[kind |-> "GlobalPtrStmt", indices |-> <<1, 2>>, snodes |-> <<"f1", "f2">>]>>,
    <<P(<<1, 2>>, "f1"), P(<<1, 2>>, "f1"), P(<<1, 2>>, "f2")>> }

\* bodies of a task with one loop index
RangeForBodies ==
  { << >>,
    <<P(<<1>>, "f1"), P(<<1>>, "f2")>>,
    <<P(<<1, 2>>, "f1"), P(<<1>>, "f2")>> }

\* the statements the Aggregator's traversal can reach at the top level
GathererStmts ==
  Tasks(OffloadedStmtOf("struct_for", "dense2"), StructForBodies, << >>) \cup
  Tasks(OffloadedStmtOf("range_for", NoSNode), RangeForBodies, << >>) \cup
  Tasks(OffloadedStmtOf("mesh_for", NoSNode), {<<P(<<1>>, "f1"), P(<<3>>, "f2")>>}, << >>) \cup
  Tasks(OffloadedStmtOf("serial", NoSNode), {<< >>, <<P(<<3>>, "f1"), P(<<3>>, "f2")>>}, << >>) \cup
  {Task(OffloadedStmtOf("range_for", NoSNode), << >>, EmptyMap,
        <<Task(OffloadedStmtOf("struct_for", "dense2"), <<P(<<1, 2>>, "f2")>>, EmptyMap, << >>)>>),
   Task(OffloadedStmtOf("serial", NoSNode), << >>, EmptyMap,
        <<Task(OffloadedStmtOf("range_for", NoSNode), <<P(<<1>>, "f1")>>, EmptyMap, << >>)>>)} \cup
  {[kind |-> "GlobalLoadStmt"]}

\* lines 233-238: gather_uniquely_accessed_pointers(root) is
\* UniquelyAccessedSNodeSearcher::run(root), lines 148-165
gather_uniquely_accessed_pointers(stmt) ==
  IF run_assert(stmt)
    THEN UniquelyAccessedSNodeSearcher_accept(
           UniquelyAccessedSNodeSearcher, run_loop_unique_stmt_searcher(stmt),
           stmt.same_address, stmt.ptrs, 1)
    ELSE [UniquelyAccessedSNodeSearcher EXCEPT
            !.fault = "TI_ASSERT(root->is<OffloadedStmt>())"]

\* lines 177-180: the gatherer after construction
UniquelyAccessedBitStructGatherer == [result_ |-> EmptyMap, fault |-> noFault]

\* lines 183-185: the kinds of task that are analysed
visit_OffloadedStmt_task_type(stmt) ==
  \/ stmt.task_type = "range_for"
  \/ stmt.task_type = "mesh_for"
  \/ stmt.task_type = "struct_for"

\* line 218 with the traversal going on into the task
visit_OffloadedStmt_dive(stmt) == stmt.offloads

\* line 218: Do not dive into OffloadedStmt
visit_OffloadedStmt_body(stmt) == << >>

\* lines 194-196 with one step to the parent in place of the while loop
non_bit_level_ancestor_parent(snode) ==
  IF SNodeTree[snode].is_bit_level THEN SNodeTree[snode].parent ELSE snode

\* lines 194-196: the nearest non-bit-level ancestor
RECURSIVE non_bit_level_ancestor(_)
non_bit_level_ancestor(snode) ==
  IF SNodeTree[snode].is_bit_level
    THEN non_bit_level_ancestor(SNodeTree[snode].parent)
    ELSE snode

\* lines 208-213 comparing the tuples as sets of values
same_indices_any_position(sv, indices1, indices2) ==
  /\ \A a \in 1..Len(indices1) : \E b \in 1..Len(indices2) :
       SameValue(sv, indices1[a], indices2[b])
  /\ \A b \in 1..Len(indices2) : \E a \in 1..Len(indices1) :
       SameValue(sv, indices1[a], indices2[b])

\* lines 208-213: no position at which same_value fails
same_indices(sv, indices1, indices2) ==
  \A id \in 1..Len(indices1) : SameValue(sv, indices1[id], indices2[id])

\* what reading ptr2->indices through a null ptr2 (line 207) can do: the
\* read faults, the assertion on the size read fails, or the loop goes on
\* and can only write nullptr over the nullptr
NullDereference == {"SIGSEGV", "TI_ASSERT", "continue"}

\* lines 190-215 with the assertion of line 207 left out, the comparison
\* running over the positions both tuples have
visit_OffloadedStmt_it_no_assert(g, sv, key, stmt, verdicts, snode0, ub) ==
  LET ptr1 == verdicts[snode0]
      loop_unique_bit_struct == g.result_[key]
      snode == non_bit_level_ancestor(snode0)
      set(v) == [g EXCEPT !.result_[key] = Put(@, snode, v)]
  IN  IF ~SNodeTree[snode0].is_bit_level
        THEN g
        ELSE IF snode \notin DOMAIN loop_unique_bit_struct
          THEN set(ptr1)
          ELSE IF ptr1 = nullptr
            THEN set(nullptr)
            ELSE LET ptr2 == loop_unique_bit_struct[snode]
                 IN  IF ptr2 = nullptr
                       THEN CASE ub = "SIGSEGV" -> [g EXCEPT !.fault = "SIGSEGV"]
                              [] OTHER -> g
                       ELSE IF \A id \in 1..Len(stmt.ptrs[ptr1].indices) :
                                 id \in 1..Len(stmt.ptrs[ptr2].indices) =>
                                   SameValue(sv, stmt.ptrs[ptr1].indices[id],
                                             stmt.ptrs[ptr2].indices[id])
                         THEN g
                         ELSE set(nullptr)

\* lines 190-215: one iteration of the for loop, at the entry of it.first =
\* snode0 in loop_unique_ptr, for the task stmt at place key
visit_OffloadedStmt_it(g, sv, key, stmt, verdicts, snode0, ub) ==
  LET ptr1 == verdicts[snode0]
      loop_unique_bit_struct == g.result_[key]
      snode == non_bit_level_ancestor(snode0)
      set(v) == [g EXCEPT !.result_[key] = Put(@, snode, v)]
      failed == [g EXCEPT !.fault = "TI_ASSERT(ptr1->indices.size() == ptr2->indices.size())"]
  IN  IF ~SNodeTree[snode0].is_bit_level
        THEN g
        ELSE IF snode \notin DOMAIN loop_unique_bit_struct
          THEN set(ptr1)
          ELSE IF ptr1 = nullptr
            THEN set(nullptr)
            ELSE LET ptr2 == loop_unique_bit_struct[snode]
                 IN  IF ptr2 = nullptr
                       THEN CASE ub = "SIGSEGV" -> [g EXCEPT !.fault = "SIGSEGV"]
                              [] ub = "TI_ASSERT" -> failed
                              [] OTHER -> g
                       ELSE IF Len(stmt.ptrs[ptr1].indices) # Len(stmt.ptrs[ptr2].indices)
                         THEN failed
                         ELSE IF same_indices(sv, stmt.ptrs[ptr1].indices,
                                              stmt.ptrs[ptr2].indices)
                           THEN g
                           ELSE set(nullptr)

gatherer == [result_ |-> result_, fault |-> fault]

\* what the read of ptr2->indices did in an iteration of the for loop: ub
\* where ptr2 was null (lines 206-207), and "no read" where it was not
read_through_null(g, key, verdicts, snode0, ub) ==
  LET snode == non_bit_level_ancestor(snode0)
  IN  IF /\ SNodeTree[snode0].is_bit_level
         /\ snode \in DOMAIN g.result_[key]
         /\ verdicts[snode0] # nullptr
         /\ g.result_[key][snode] = nullptr
        THEN ub
        ELSE "no read"

InitGatherer == InitRun /\ same_value \in SameValueOracles

\* lines 223-225: run constructs the gatherer and root accepts it
GathererRun ==
  /\ pc = "start"
  /\ pc' = "gatherer"
  /\ UNCHANGED <<root, propagatorVars, resolverVars, fault, gathererVars>>

\* the traversal reaches stmt (allow_undefined_visitor for a statement that
\* is no task boundary); lines 182-188 for a task boundary: its entry in
\* result_ and its verdicts, the for loop of line 189 about to start
Visit(stmt, parent) ==
  LET key == Len(program) + 1
  IN  /\ program' = Append(program, [stmt |-> stmt, parent |-> parent])
      /\ IF stmt.kind = "OffloadedStmt" /\ visit_OffloadedStmt_task_type(stmt)
           THEN LET r == gather_uniquely_accessed_pointers(stmt)
                IN  /\ result_' = Put(result_, key, EmptyMap)
                    /\ analyzed' = Append(analyzed, key)
                    /\ loop_unique_ptr' = r.accessed_pointer_
                    /\ unvisited' = DOMAIN r.accessed_pointer_
                    /\ fault' = r.fault
                    /\ pc' = IF r.fault = noFault THEN pc ELSE "abort"
           ELSE /\ loop_unique_ptr' = EmptyMap
                /\ unvisited' = {}
                /\ UNCHANGED <<result_, analyzed, fault, pc>>
      /\ it' = NoSNode
      /\ pending' = IF stmt.kind = "OffloadedStmt"
                      THEN [k \in 1..Len(visit_OffloadedStmt_body(stmt)) |->
                              [stmt |-> visit_OffloadedStmt_body(stmt)[k], parent |-> key]]
                           \o (IF pending = << >> THEN << >> ELSE Tail(pending))
                      ELSE IF pending = << >> THEN << >> ELSE Tail(pending)
      /\ UNCHANGED <<root, propagatorVars, resolverVars, same_value, trail, again>>

\* the traversal reaches its next task boundary
VisitOffloadedStmt ==
  /\ pc = "gatherer"
  /\ unvisited = {}
  /\ IF pending # << >>
       THEN Visit(Head(pending).stmt, Head(pending).parent)
       ELSE /\ Len(program) < MaxTasks
            /\ \E stmt \in {t \in GathererStmts : t.kind = "OffloadedStmt"} : Visit(stmt, 0)

\* the traversal reaches a statement that is no task boundary
VisitOtherStmt ==
  /\ pc = "gatherer"
  /\ unvisited = {}
  /\ pending = << >>
  /\ Len(program) < MaxTasks
  /\ \E stmt \in {t \in GathererStmts : t.kind # "OffloadedStmt"} : Visit(stmt, 0)

\* lines 189-216: the for loop moves to the entry of snode in
\* loop_unique_ptr; ub is what a read through a null ptr2 does
It(snode, ub) ==
  /\ pc = "gatherer"
  /\ snode \in unvisited
  /\ LET key == Len(program)
         g == visit_OffloadedStmt_it(gatherer, same_value, key, program[key].stmt,
                                     loop_unique_ptr, snode, ub)
     IN  /\ it' = snode
         /\ unvisited' = unvisited \ {snode}
         /\ result_' = g.result_
         /\ fault' = g.fault
         /\ pc' = IF g.fault = noFault THEN pc ELSE "abort"
  /\ UNCHANGED <<root, propagatorVars, resolverVars, same_value, program, pending,
                 loop_unique_ptr, analyzed, again>>

\* lines 189-216: the for loop moves to an entry of loop_unique_ptr, in the
\* order the unordered_map yields them
VisitOffloadedStmtIt ==
  \E snode \in unvisited, ub \in NullDereference : It(snode, ub) /\ UNCHANGED trail

NextGatherer == GathererRun \/ VisitOffloadedStmt \/ VisitOtherStmt \/ VisitOffloadedStmtIt

SpecGatherer == InitGatherer /\ [][NextGatherer]_vars

\* the same step, with the entry the for loop came to and what the read of
\* ptr2->indices did kept for the task
VisitOffloadedStmtItTrailed ==
  \E snode \in unvisited, ub \in NullDereference :
    /\ It(snode, ub)
    /\ LET key == Len(program)
           steps == IF key \in DOMAIN trail THEN trail[key] ELSE << >>
           read == read_through_null(gatherer, key, loop_unique_ptr, snode, ub)
       IN  trail' = Put(trail, key, Append(steps, <<snode, read>>))

\* lines 189-216: the for loop over the entries of steps from position k
\* on, until an assertion fails; a read through a null ptr2 does what it
\* did in the step, and ub where the step made no such read
RECURSIVE visit_OffloadedStmt_for(_, _, _, _, _, _, _, _)
visit_OffloadedStmt_for(g, sv, key, stmt, verdicts, steps, k, ub) ==
  IF k > Len(steps) \/ g.fault # noFault
    THEN g
    ELSE visit_OffloadedStmt_for(
           visit_OffloadedStmt_it(g, sv, key, stmt, verdicts, steps[k][1],
                                  IF steps[k][2] = "no read" THEN ub ELSE steps[k][2]),
           sv, key, stmt, verdicts, steps, k + 1, ub)

\* lines 233-238: what gather_uniquely_accessed_pointers returns for each
\* task the traversal can reach
gathered ==
  [stmt \in {s \in GathererStmts : s.kind = "OffloadedStmt"} |->
     gather_uniquely_accessed_pointers(stmt)]

\* lines 182-219: visit(OffloadedStmt*) as a whole, the for loop coming to
\* the entries in the order of steps
visit_OffloadedStmt(g, sv, key, stmt, steps, ub) ==
  IF visit_OffloadedStmt_task_type(stmt)
    THEN LET created == [g EXCEPT !.result_ =
                                    IF key \in DOMAIN @ THEN @ ELSE Put(@, key, EmptyMap)]
             r == gathered[stmt]
         IN  IF r.fault # noFault
               THEN [created EXCEPT !.fault = r.fault]
               ELSE visit_OffloadedStmt_for(created, sv, key, stmt, r.accessed_pointer_,
                                            steps, 1, ub)
    ELSE g

\* line 225, root->accept(&gatherer): the statements of p from place k on
RECURSIVE UniquelyAccessedBitStructGatherer_accept(_, _, _, _, _, _)
UniquelyAccessedBitStructGatherer_accept(g, sv, p, t, k, ub) ==
  IF k > Len(p) \/ g.fault # noFault
    THEN g
    ELSE UniquelyAccessedBitStructGatherer_accept(
           IF p[k].stmt.kind = "OffloadedStmt"
             THEN visit_OffloadedStmt(g, sv, k, p[k].stmt,
                                      IF k \in DOMAIN t THEN t[k] ELSE << >>, ub)
             ELSE g,
           sv, p, t, k + 1, ub)

\* lines 223-226 with the gatherer of the run before in place of a new one
UniquelyAccessedBitStructGatherer_run_same_gatherer(sv, p, t, ub) ==
  UniquelyAccessedBitStructGatherer_accept(gatherer, sv, p, t, 1, ub)

\* lines 223-226: run, with a gatherer of its own
UniquelyAccessedBitStructGatherer_run(sv, p, t, ub) ==
  UniquelyAccessedBitStructGatherer_accept(UniquelyAccessedBitStructGatherer, sv, p, t, 1,
                                           ub)

\* lines 221-227: run is called again on the same root, the first run
\* having returned; in the same process the unordered_maps yield their
\* entries in the order they did, and a read does what it did; ub is what a
\* read through a null ptr2 does that the first run did not make
RunAgain ==
  /\ pc = "gatherer"
  /\ unvisited = {}
  /\ pending = << >>
  /\ program # << >>
  /\ \E faulting \in {UniquelyAccessedBitStructGatherer_run(same_value, program, trail,
                                                             "SIGSEGV")} :
       again' \in IF faulting.fault = noFault  \* the second run makes no other such read
                    THEN {<<faulting>>}
                    ELSE {<<UniquelyAccessedBitStructGatherer_run(same_value, program,
                                                                  trail, ub)>> :
                            ub \in NullDereference}
  /\ pc' = "returned"
  /\ UNCHANGED <<root, propagatorVars, resolverVars, fault, same_value, program, pending,
                 result_, loop_unique_ptr, unvisited, it, analyzed, trail>>

NextAgain ==
  \/ GathererRun
  \/ VisitOffloadedStmt
  \/ VisitOtherStmt
  \/ VisitOffloadedStmtItTrailed
  \/ RunAgain

SpecAgain == InitGatherer /\ [][NextAgain]_vars

----------------------------------------------------------------------------
(* Properties of the Propagator.                                           *)

Tagged(id) == id \in DOMAIN loop_unique_
Invariant(id) == id \in loop_invariant_

\* C7: a unary or binary operation is tagged unique exactly when it is a
\* negation of a tagged operand, or an addition, subtraction or bitwise xor
\* of a tagged and an invariant operand, in either order; its tag is then
\* the tagged operand's tag.  No other operation is tagged.
C7_UniquePropagation ==
  \A id \in 1..Len(body) :
    LET stmt == body[id]
    IN  /\ stmt.kind = "UnaryOpStmt" =>
             /\ Tagged(id) <=> (stmt.op_type = "neg" /\ Tagged(stmt.operand))
             /\ Tagged(id) => loop_unique_[id] = loop_unique_[stmt.operand]
        /\ stmt.kind = "BinaryOpStmt" =>
             LET unique_op_invariant == Tagged(stmt.lhs) /\ Invariant(stmt.rhs)
                 invariant_op_unique == Invariant(stmt.lhs) /\ Tagged(stmt.rhs)
             IN  /\ Tagged(id) <=>
                      /\ stmt.op_type \in {"add", "sub", "bit_xor"}
                      /\ unique_op_invariant \/ invariant_op_unique
                 /\ Tagged(id) /\ unique_op_invariant =>
                      loop_unique_[id] = loop_unique_[stmt.lhs]
                 /\ Tagged(id) /\ invariant_op_unique =>
                      loop_unique_[id] = loop_unique_[stmt.rhs]

\* C7 witness: the traversal has tagged the subtraction of a Dimension(1)
\* value from an invariant with Dimension(1).
C7_Witness ==
  \E id \in 1..Len(body) :
    /\ body[id].kind = "BinaryOpStmt" /\ body[id].op_type = "sub"
    /\ Invariant(body[id].lhs) /\ Tagged(body[id].rhs)
    /\ Tagged(id) /\ loop_unique_[id] = 1

\* C8: a statement is classified invariant exactly when it is a constant, a
\* unary operation on an invariant operand or a binary operation on two
\* invariant operands, whatever the operator; a loop index and a
\* loop-unique hint never are.
C8_InvariancePropagation ==
  \A id \in 1..Len(body) :
    LET stmt == body[id]
    IN  /\ Invariant(id) <=>
             \/ stmt.kind = "ConstStmt"
             \/ stmt.kind = "UnaryOpStmt" /\ Invariant(stmt.operand)
             \/ stmt.kind = "BinaryOpStmt" /\ Invariant(stmt.lhs) /\ Invariant(stmt.rhs)
        /\ stmt.kind \in {"LoopIndexStmt", "LoopUniqueStmt"} => ~Invariant(id)

\* C8 witness: a multiplication of two invariant operands, one of them a
\* unary operation on a constant, has been classified invariant.
C8_Witness ==
  \E id \in 1..Len(body) :
    /\ body[id].kind = "BinaryOpStmt" /\ body[id].op_type = "mul"
    /\ body[body[id].lhs].kind = "UnaryOpStmt" /\ body[body[id].lhs].op_type = "abs"
    /\ body[body[id].rhs].kind = "ConstStmt"
    /\ Invariant(id)

----------------------------------------------------------------------------
(* Properties of the loop-uniqueness query and of the Resolver.            *)

\* the access has an index tagged Opaque
OpaqueIndex(stmt) ==
  \E k \in 1..Len(stmt.indices) :
    Tagged(stmt.indices[k]) /\ loop_unique_[stmt.indices[k]] = -1

\* the dimensions d of the Dimension(d) tags of the access's indices
Dimensions(stmt) ==
  {loop_unique_[stmt.indices[k]] :
     k \in {j \in 1..Len(stmt.indices) :
              Tagged(stmt.indices[j]) /\ loop_unique_[stmt.indices[j]] >= 0}}

LoopUniqueAccess(stmt) ==
  \/ OpaqueIndex(stmt)
  \/ Cardinality(Dimensions(stmt)) = num_different_loop_indices

\* C6: the query answers true for an access with an Opaque index, and
\* otherwise exactly when its indices carry as many distinct Dimension tags
\* as the task has dimensions; the first access of a body is recorded
\* accordingly.  In a two-dimensional task [i, j] and [j, i] are loop-unique
\* and [i, i] is not.
C6_AccessLoopUnique ==
  pc = "searcher" =>
    /\ \A stmt \in QueryPtrs :
         is_ptr_indices_loop_unique(loop_unique_stmt_searcher_, stmt) = LoopUniqueAccess(stmt)
    /\ Len(ptrs) = 1 =>
         /\ accessed_pointer_["f1"] = IF LoopUniqueAccess(ptrs[1]) THEN 1 ELSE nullptr
         /\ num_different_loop_indices = 2 /\ ptrs[1].indices \in {<<1, 2>>, <<2, 1>>} =>
              accessed_pointer_["f1"] = 1
         /\ num_different_loop_indices = 2 /\ ptrs[1].indices = <<1, 1>> =>
              accessed_pointer_["f1"] = nullptr

\* C6 witness: in a two-dimensional task the access [j, c, i] has been
\* judged loop-unique.
C6_Witness ==
  /\ pc = "searcher" /\ num_different_loop_indices = 2
  /\ Len(ptrs) = 1 /\ ptrs[1].indices = <<2, 4, 1>>
  /\ accessed_pointer_["f1"] = 1

\* the step visits one more access
VisitsAccess == ptrs' # ptrs

\* C5: a candidate node with no recorded verdict gets Some(access) when the
\* access is loop-unique and None when it is not, every such candidate of
\* the access does, and the oracle is not consulted for it.
C5_FirstVerdict ==
  [][VisitsAccess =>
       LET id == Len(ptrs')
           stmt == ptrs'[id]
       IN  \A k \in 1..Len(stmt.snodes) :
             stmt.snodes[k] \notin DOMAIN accessed_pointer_ =>
               /\ stmt.snodes[k] \in DOMAIN accessed_pointer_'
               /\ accessed_pointer_'[stmt.snodes[k]] =
                    IF LoopUniqueAccess(stmt) THEN id ELSE nullptr
               /\ \A call \in oracle_calls' \ oracle_calls : call[1] # stmt.snodes[k]]_vars

\* C5 witness: one access has given two nodes their first verdict, Some.
C5_Witness ==
  /\ Len(ptrs) = 1 /\ Len(ptrs[1].snodes) = 2
  /\ accessed_pointer_["f1"] = 1 /\ accessed_pointer_["f2"] = 1

\* C4: at a node whose verdict is Some(previous), the verdict stays
\* Some(previous) when the oracle says the two accesses have the same
\* address and becomes None when it does not; the verdicts of the nodes the
\* access cannot address are unchanged.
C4_SameAddressMerge ==
  [][VisitsAccess =>
       LET id == Len(ptrs')
           stmt == ptrs'[id]
           candidates == {stmt.snodes[k] : k \in 1..Len(stmt.snodes)}
       IN  /\ \A snode \in candidates \cap DOMAIN accessed_pointer_ :
                LET previous == accessed_pointer_[snode]
                IN  previous # nullptr =>
                      accessed_pointer_'[snode] =
                        IF same_address'[<<previous, id>>] THEN previous ELSE nullptr
           /\ DOMAIN accessed_pointer_' = DOMAIN accessed_pointer_ \cup candidates
           /\ \A snode \in DOMAIN accessed_pointer_ \ candidates :
                accessed_pointer_'[snode] = accessed_pointer_[snode]]_vars

\* C4 witness: a second access to a node was found to have the address of
\* the first, which is still the node's representative, and a third was not.
C4_Witness ==
  /\ Len(ptrs) = 3
  /\ \A id \in 1..3 : ptrs[id].snodes = <<"f1">>
  /\ <<"f1", 1, 2>> \in oracle_calls /\ same_address[<<1, 2>>]
  /\ <<"f1", 1, 3>> \in oracle_calls /\ ~same_address[<<1, 3>>]
  /\ accessed_pointer_["f1"] = nullptr

\* C3: a node's verdict, once recorded, stays recorded; None stays None
\* whatever the oracle answers, and Some(x) stays Some(x) or becomes None.
C3_MonotonicVerdict ==
  [][\A snode \in DOMAIN accessed_pointer_ :
       /\ snode \in DOMAIN accessed_pointer_'
       /\ accessed_pointer_'[snode] \in {accessed_pointer_[snode], nullptr}]_vars

\* C3 witness: a node whose verdict is None has been visited again by a
\* loop-unique access.
C3_Witness ==
  /\ Len(ptrs) = 2
  /\ ptrs[1].snodes = <<"f1">> /\ ptrs[2].snodes = <<"f1">>
  /\ ~LoopUniqueAccess(ptrs[1]) /\ LoopUniqueAccess(ptrs[2])
  /\ accessed_pointer_["f1"] = nullptr

\* what a symmetric oracle that gave the answers of this run says of each
\* pair of accesses, in either order
SymmetricAnswers ==
  [pair \in {q \in (1..Len(ptrs)) \X (1..Len(ptrs)) : q[1] # q[2]} |->
     IF pair[1] < pair[2] THEN same_address[pair] ELSE same_address[<<pair[2], pair[1]>>]]

VisitOrders == {order \in [1..Len(ptrs) -> 1..Len(ptrs)] :
                  \A j, k \in 1..Len(ptrs) : order[j] = order[k] => j = k}

VisitedOrder == [k \in 1..Len(ptrs) |-> k]

Reverse(v) == [k \in 1..Len(v) |-> v[Len(v) + 1 - k]]

\* the Resolver run with oracle o on the same accesses visited in the given
\* order, the candidate nodes of the accesses in reversed visited last to
\* first
RECURSIVE SearchInOrder(_, _, _, _, _)
SearchInOrder(r, o, order, reversed, k) ==
  IF k > Len(order)
    THEN r
    ELSE LET id == order[k]
             stmt == IF id \in reversed
                       THEN [ptrs[id] EXCEPT !.snodes = Reverse(@)]
                       ELSE ptrs[id]
         IN  SearchInOrder(visit_GlobalPtrStmt(r, loop_unique_stmt_searcher_, o, id, stmt, 1),
                           o, order, reversed, k + 1)

VerdictsInOrder(o, order, reversed) ==
  SearchInOrder(UniquelyAccessedSNodeSearcher, o, order, reversed, 1).accessed_pointer_

Candidates(stmt) == {stmt.snodes[c] : c \in 1..Len(stmt.snodes)}

\* the first access in the order that can address the node
FirstAccess(order, snode) ==
  order[CHOOSE k \in 1..Len(ptrs) :
          /\ snode \in Candidates(ptrs[order[k]])
          /\ \A j \in 1..(k - 1) : snode \notin Candidates(ptrs[order[j]])]

SameFirstAccesses(order) ==
  \A snode \in DOMAIN accessed_pointer_ :
    FirstAccess(order, snode) = FirstAccess(VisitedOrder, snode)

\* C2 as claimed: with a symmetric oracle the verdict map, representatives
\* included, is the same for every order of the accesses and for every
\* order of the candidate nodes of one access.
C2_OrderIndependent ==
  pc = "searcher" =>
    LET o == SymmetricAnswers
    IN  /\ \A order \in VisitOrders : VerdictsInOrder(o, order, {}) = accessed_pointer_
        /\ \A id \in 1..Len(ptrs) :
             VerdictsInOrder(o, VisitedOrder, {id}) = accessed_pointer_

\* C2 as amended: with a symmetric oracle the verdict map is the same for
\* every order of the candidate nodes of one access, and for every order of
\* the accesses in which each node is first visited by the same access.
C2_OrderIndependentGivenFirst ==
  pc = "searcher" =>
    LET o == SymmetricAnswers
    IN  /\ \A order \in VisitOrders :
             SameFirstAccesses(order) => VerdictsInOrder(o, order, {}) = accessed_pointer_
        /\ \A id \in 1..Len(ptrs) :
             VerdictsInOrder(o, VisitedOrder, {id}) = accessed_pointer_

\* C2 witness: three accesses to one node, the first its representative;
\* the other two can be visited in either order.
C2_Witness ==
  /\ Len(ptrs) = 3
  /\ \A id \in 1..3 : "f1" \in Candidates(ptrs[id])
  /\ Len(ptrs[2].snodes) = 2
  /\ accessed_pointer_["f1"] = 1
  /\ SameFirstAccesses(<<1, 3, 2>>)

----------------------------------------------------------------------------
(* Properties of the Aggregator.                                           *)

\* the task whose verdicts the for loop of line 189 is folding
FoldedTask == Len(program)

\* a step of the for loop of line 189: one more entry of loop_unique_ptr folded
FoldsEntry == program' = program /\ unvisited' # unvisited

\* the step folds a packed sub-field into a physical unit that has an entry
FoldsIntoEntry ==
  /\ FoldsEntry
  /\ SNodeTree[it'].is_bit_level
  /\ non_bit_level_ancestor(it') \in DOMAIN result_[FoldedTask]

EligibleTask(stmt) ==
  stmt.kind = "OffloadedStmt" /\ stmt.task_type \in {"range_for", "mesh_for", "struct_for"}

\* C10: no serial task is a key of the result or is analysed; every
\* range_for, mesh_for or struct_for task the traversal reaches is analysed
\* exactly once and has an entry; the traversal reaches no statement nested
\* in a task, so no nested task is analysed or has an entry.
C10_TasksAnalyzedOnce ==
  /\ DOMAIN result_ \subseteq 1..Len(program)
  /\ \A key \in 1..Len(program) :
       LET times == Cardinality({k \in 1..Len(analyzed) : analyzed[k] = key})
       IN  /\ program[key].parent = 0
           /\ IF EligibleTask(program[key].stmt)
                THEN key \in DOMAIN result_ /\ times = 1
                ELSE key \notin DOMAIN result_ /\ times = 0

\* a serial task and an analysed task have both been passed, each with a
\* task nested in it, and a task without accesses has its empty entry
C10_Witness ==
  /\ Len(program) = MaxTasks
  /\ unvisited = {}
  /\ \E k1, k2 \in 1..Len(program) :
       /\ program[k1].stmt.kind = "OffloadedStmt"
       /\ program[k1].stmt.task_type = "serial"
       /\ program[k1].stmt.offloads # << >>
       /\ EligibleTask(program[k2].stmt)
       /\ program[k2].stmt.offloads # << >>
       /\ k2 \in DOMAIN result_
       /\ result_[k2] = EmptyMap
       /\ analyzed = <<k2>>

\* C9: when a sub-field with verdict Some(p1) is folded into a unit whose
\* entry is Some(p2) and the two index tuples have the same length, the
\* entry stays p2 if same_value holds at every position and becomes None if
\* it fails at one; (i, j) against (i, j) keeps it, (i, j) against (j, i)
\* does not.
C9_PositionalComparison ==
  [][FoldsIntoEntry =>
       LET unit == non_bit_level_ancestor(it')
           p1 == loop_unique_ptr[it']
           p2 == result_[FoldedTask][unit]
           indices1 == program[FoldedTask].stmt.ptrs[p1].indices
           indices2 == program[FoldedTask].stmt.ptrs[p2].indices
       IN  (p1 # nullptr /\ p2 # nullptr /\ Len(indices1) = Len(indices2)) =>
             /\ fault' = noFault
             /\ result_'[FoldedTask][unit] =
                  IF \A k \in 1..Len(indices1) : <<indices1[k], indices2[k]>> \in same_value
                    THEN p2
                    ELSE nullptr
             /\ (indices1 = <<1, 2>> /\ indices2 = <<1, 2>>) => result_'[FoldedTask][unit] = p2
             /\ (indices1 = <<1, 2>> /\ indices2 = <<2, 1>>) =>
                  result_'[FoldedTask][unit] = nullptr]_vars

\* two tasks have been folded, both with two loop-unique sub-fields of one
\* unit: [i, j] and [j, i] left the unit None, two different tuples that
\* same_value holds for at every position left it Some
C9_Witness ==
  /\ unvisited = {}
  /\ \E k1, k2 \in DOMAIN result_ :
       /\ program[k1].stmt.ptrs = <<P(<<1, 2>>, "f1"), P(<<2, 1>>, "f2")>>
       /\ result_[k1] = ("bs" :> nullptr)
       /\ k2 = FoldedTask
       /\ program[k2].stmt.ptrs = <<P(<<1, 2, 4>>, "f1"), P(<<1, 2, 5>>, "f2")>>
       /\ loop_unique_ptr = ("f1" :> 1) @@ ("f2" :> 2)
       /\ "bs" \in DOMAIN result_[k2]
       /\ result_[k2]["bs"] # nullptr

\* C1: folding a sub-field into a unit that has an entry, when the
\* sub-field's verdict is None or the entry is already None, completes
\* without a fault and leaves the entry None.
C1_NoneAbsorbs ==
  [][FoldsIntoEntry =>
       LET unit == non_bit_level_ancestor(it')
       IN  (loop_unique_ptr[it'] = nullptr \/ result_[FoldedTask][unit] = nullptr) =>
             /\ fault' = noFault
             /\ pc' = pc
             /\ result_'[FoldedTask][unit] = nullptr]_vars

\* the pass has stopped while folding a Some verdict into a unit whose entry
\* was None
C1_Witness ==
  /\ pc = "abort"
  /\ fault = "SIGSEGV"
  /\ loop_unique_ptr[it] # nullptr
  /\ result_[FoldedTask][non_bit_level_ancestor(it)] = nullptr

----------------------------------------------------------------------------
(* What the tags mean: the values statements take in the iterations of     *)
(* the task, in 2-bit wrap-around arithmetic.                              *)

Values == 0..3
Wrap(x) == x % 4
\* the value read as a signed number
Signed(x) == IF x >= 2 THEN x - 4 ELSE x
Xor(a, b) == (((a % 2) + (b % 2)) % 2) + 2 * (((a \div 2) + (b \div 2)) % 2)
\* a value the iteration does not determine
Unknown == -1

\* the iterations of a task with n dimensions: a value for each loop index
Iterations(n) == [0..(n - 1) -> Values]

\* the value of statement stmt at place id in iteration iter, the constants
\* having the values cv and the loop index of another task boundary the
\* value ev throughout; v holds the values of the statements before it
EvalStmt(stmt, id, v, iter, cv, ev) ==
  CASE stmt.kind = "ConstStmt" -> cv[id]
    [] stmt.kind = "LoopIndexStmt" ->
         IF stmt.loop = "offload"
           THEN IF stmt.index \in DOMAIN iter THEN iter[stmt.index] ELSE Unknown
           ELSE IF stmt.loop = "enclosing" THEN ev ELSE Unknown
    [] stmt.kind = "UnaryOpStmt" ->
         LET a == v[stmt.operand]
         IN  IF a = Unknown
               THEN Unknown
               ELSE IF stmt.op_type = "neg"
                 THEN Wrap(4 - a)
                 ELSE Wrap(IF Signed(a) < 0 THEN 4 - a ELSE a)
    [] stmt.kind = "BinaryOpStmt" ->
         LET x == v[stmt.lhs]
             y == v[stmt.rhs]
         IN  IF x = Unknown \/ y = Unknown
               THEN Unknown
               ELSE CASE stmt.op_type = "add" -> Wrap(x + y)
                      [] stmt.op_type = "sub" -> Wrap(x - y + 4)
                      [] stmt.op_type = "bit_xor" -> Xor(x, y)
                      [] OTHER -> Wrap(x * y)
    [] OTHER -> Unknown

\* the values of the statements of body b, in order
RECURSIVE Eval(_, _, _, _, _)
Eval(b, v, iter, cv, ev) ==
  IF Len(v) = Len(b)
    THEN v
    ELSE Eval(b, Append(v, EvalStmt(b[Len(v) + 1], Len(v) + 1, v, iter, cv, ev)),
              iter, cv, ev)

\* the loop indices of the task under analysis are its dimensions 0..n-1
OwnLoopIndicesInRange ==
  \A id \in 1..Len(body) :
    (body[id].kind = "LoopIndexStmt" /\ body[id].loop = "offload") =>
      body[id].index < num_different_loop_indices

\* index tuples of one or two statements of the body
BodyIndexTuples ==
  {<<a>> : a \in 1..Len(body)} \cup {<<a, c>> : a, c \in 1..Len(body)}

\* the index tuples of the accesses judged loop-unique with no Opaque index
UniqueIndexTuples ==
  {t \in BodyIndexTuples :
     LET stmt == [kind |-> "GlobalPtrStmt", indices |-> t, snodes |-> <<"f1">>]
     IN  ~OpaqueIndex(stmt) /\ is_ptr_indices_loop_unique(loop_unique_stmt_searcher_, stmt)}

\* the tags are sound in the iterations i1 and i2, where the statements
\* have the values v1 and v2: a statement tagged Dimension(d) differs where
\* the d-th loop index does, and an access judged loop-unique with no
\* Opaque index differs in some index
SoundTags(i1, i2, v1, v2, unique) ==
  /\ \A id \in 1..Len(body) :
       (/\ Tagged(id)
        /\ loop_unique_[id] \in DOMAIN i1
        /\ i1[loop_unique_[id]] # i2[loop_unique_[id]]) =>
         v1[id] # Unknown /\ v1[id] # v2[id]
  /\ i1 # i2 =>
       \A t \in unique : \E k \in 1..Len(t) : v1[t[k]] # Unknown /\ v1[t[k]] # v2[t[k]]

SoundInAllIterations ==
  LET its == Iterations(num_different_loop_indices)
      unique == UniqueIndexTuples
  IN  \A cv \in [1..Len(body) -> {1, 2, 3}], ev \in {0, 3} :
        LET v == [iter \in its |-> Eval(body, << >>, iter, cv, ev)]
        IN  \A i1, i2 \in its : SoundTags(i1, i2, v[i1], v[i2], unique)

\* C11: in a task whose loop indices are its dimensions 0..n-1, a statement
\* tagged Dimension(d) is an injective function of the d-th loop index, and
\* an access judged loop-unique with no Opaque index has distinct index
\* tuples in distinct iterations.
C11_NoFalseUniqueness ==
  (pc = "loop_unique_stmt_searcher" /\ OwnLoopIndicesInRange) => SoundInAllIterations

\* the same, over bodies whose loop indices belong to the task under
\* analysis or to a loop inside it
C11_NoFalseUniquenessOwnLoops ==
  (/\ pc = "loop_unique_stmt_searcher"
   /\ OwnLoopIndicesInRange
   /\ \A id \in 1..Len(body) :
        body[id].kind = "LoopIndexStmt" => body[id].loop # "enclosing")
    => SoundInAllIterations

\* the loop index of another task boundary has been tagged Dimension(0) in
\* a task of one dimension, and the access it indexes is judged loop-unique
C11_Witness ==
  /\ pc = "loop_unique_stmt_searcher"
  /\ num_different_loop_indices = 1
  /\ \E id \in 1..Len(body) :
       /\ body[id].kind = "LoopIndexStmt" /\ body[id].loop = "enclosing"
       /\ Tagged(id) /\ loop_unique_[id] = 0
       /\ is_ptr_indices_loop_unique(
            loop_unique_stmt_searcher_,
            [kind |-> "GlobalPtrStmt", indices |-> <<id>>, snodes |-> <<"f1">>])

\* C15: a loop-index statement is tagged, with its index position, exactly
\* when its owning loop is the task boundary under analysis; one owned by
\* another task boundary or by a loop inside the body gets no tag.
C15_OwnLoopIndexTagged ==
  \A id \in 1..Len(body) :
    body[id].kind = "LoopIndexStmt" =>
      /\ Tagged(id) <=> body[id].loop = "offload"
      /\ Tagged(id) => loop_unique_[id] = body[id].index

\* the traversal has passed the loop index of another task boundary and
\* the loop index of an inner loop: the first is tagged, the second is not
C15_Witness ==
  \E id1, id2 \in 1..Len(body) :
    /\ body[id1].kind = "LoopIndexStmt" /\ body[id1].loop = "enclosing"
    /\ Tagged(id1) /\ loop_unique_[id1] = body[id1].index
    /\ body[id2].kind = "LoopIndexStmt" /\ body[id2].loop = "inner"
    /\ ~Tagged(id2)

----------------------------------------------------------------------------
(* Further properties of the Aggregator.                                   *)

\* the step folds a Some verdict into a unit whose entry is Some
FoldsSomeIntoSome ==
  /\ FoldsIntoEntry
  /\ loop_unique_ptr[it'] # nullptr
  /\ result_[FoldedTask][non_bit_level_ancestor(it')] # nullptr

\* the two representatives of such a step have index tuples of one length
SameArity ==
  LET p == program[FoldedTask].stmt.ptrs
  IN  Len(p[loop_unique_ptr[it']].indices) =
      Len(p[result_[FoldedTask][non_bit_level_ancestor(it')]].indices)

\* C13: merging two Some representatives whose index tuples differ in
\* length stops the pass at the assertion, with no entry changed by a
\* comparison, and the stopped pass goes no further and returns nothing;
\* with tuples of one length the assertion does not fail.
C13_ArityAssertion ==
  [][/\ (FoldsSomeIntoSome /\ ~SameArity) =>
          /\ fault' = "TI_ASSERT(ptr1->indices.size() == ptr2->indices.size())"
          /\ pc' = "abort"
          /\ result_' = result_
     /\ (FoldsSomeIntoSome /\ SameArity) => (fault' = noFault /\ pc' = pc)
     /\ pc # "abort"]_vars

\* the pass has stopped at the assertion while merging [i, j] with an
\* access of one index, after an earlier task was folded
C13_Witness ==
  /\ pc = "abort"
  /\ fault = "TI_ASSERT(ptr1->indices.size() == ptr2->indices.size())"
  /\ Len(program) = 2
  /\ program[2].stmt.ptrs = <<P(<<1, 2>>, "f1"), P(<<3>>, "f2")>>
  /\ loop_unique_ptr = ("f1" :> 1) @@ ("f2" :> 2)
  /\ result_[2]["bs"] # nullptr

\* the nodes the accesses of task stmt may address
TouchedSNodes(stmt) ==
  UNION {{stmt.ptrs[p].snodes[k] : k \in 1..Len(stmt.ptrs[p].snodes)} :
           p \in 1..Len(stmt.ptrs)}

\* every key of every aggregated map is a node that is no packed sub-field
\* and is the nearest such ancestor of a touched packed sub-field of the task
KeysArePhysicalUnits ==
  \A key \in DOMAIN result_ : \A unit \in DOMAIN result_[key] :
    /\ ~SNodeTree[unit].is_bit_level
    /\ \E snode \in TouchedSNodes(program[key].stmt) :
         /\ SNodeTree[snode].is_bit_level
         /\ non_bit_level_ancestor(snode) = unit

\* C16: every key of an aggregated map is a node that is not a packed
\* sub-field and is the nearest non-packed ancestor of a touched packed
\* sub-field, found by the ascent along the parents; folding the verdict of
\* a touched node that is not a packed sub-field adds no entry and changes
\* none, also when that node is a unit whose sub-fields are touched.
C16_PhysicalUnitKeys ==
  [][/\ KeysArePhysicalUnits'
     /\ (FoldsEntry /\ ~SNodeTree[it'].is_bit_level) => result_' = result_]_vars

\* a task touching g (a sub-field of sub-field f1 of bs), bs itself, place
\* and h has been folded: bs has the verdict of g, bs2 that of h, and the
\* verdicts of bs and place have left no trace
C16_Witness ==
  /\ unvisited = {}
  /\ DOMAIN loop_unique_ptr = {"g", "bs", "place", "h"}
  /\ loop_unique_ptr["bs"] = 2
  /\ loop_unique_ptr["place"] = nullptr
  /\ result_[FoldedTask] = ("bs" :> 1) @@ ("bs2" :> 4)

----------------------------------------------------------------------------
(* Further properties of the Resolver.                                     *)

\* the dimension count of the task handed to run
DimensionCount ==
  CASE root.task_type \in {"range_for", "mesh_for"} -> 1
    [] root.task_type = "struct_for" -> SNodeTree[root.snode].num_active_indices
    [] OTHER -> 0

\* C14: on a task boundary of any kind the dimension count is fixed (1 for
\* range_for and mesh_for, the active dimensions of the node for struct_for,
\* 0 for serial) before the first access is queried and stays what it is, so
\* the assertion of the query never fails; on a root that is no task
\* boundary run stops at its assertion with no statement visited.
C14_DimensionCountFixed ==
  /\ fault # "TI_ASSERT(num_different_loop_indices != -1)"
  /\ pc = "start" => ptrs = << >>
  /\ pc = "searcher" =>
       /\ root.kind = "OffloadedStmt"
       /\ num_different_loop_indices = DimensionCount
       /\ num_different_loop_indices # -1
       /\ fault = noFault
  /\ pc = "abort" =>
       /\ root.kind # "OffloadedStmt"
       /\ fault = "TI_ASSERT(root->is<OffloadedStmt>())"
       /\ body = << >> /\ ptrs = << >> /\ accessed_pointer_ = EmptyMap
  /\ pc \in {"start", "searcher", "abort"}

\* two accesses of a serial task have been queried with the count at 0
C14_Witness ==
  /\ pc = "searcher"
  /\ root.task_type = "serial"
  /\ num_different_loop_indices = 0
  /\ Len(ptrs) = 2
  /\ fault = noFault

\* C17 as stated: the oracle is asked about (previous, access) only where
\* the node's verdict is Some(previous); it is never handed an absent
\* representative.
C17_OracleOnlyOnSome ==
  \A call \in oracle_calls : call[2] # nullptr

\* C17: at every candidate node of a visited access that has a verdict,
\* Some or None, the oracle is asked about (entry, access), the entry being
\* the absent representative when the verdict is None, and at no other
\* node; a None verdict stays None whatever the oracle answers.
C17_OracleOnEveryEntry ==
  [][VisitsAccess =>
       LET id == Len(ptrs')
           stmt == ptrs'[id]
           candidates == {stmt.snodes[k] : k \in 1..Len(stmt.snodes)}
       IN  /\ oracle_calls' \ oracle_calls =
                {<<snode, accessed_pointer_[snode], id>> :
                   snode \in candidates \cap DOMAIN accessed_pointer_}
           /\ \A snode \in candidates \cap DOMAIN accessed_pointer_ :
                accessed_pointer_[snode] = nullptr => accessed_pointer_'[snode] = nullptr]_vars

\* the oracle has been asked about the absent representative and a
\* loop-unique access, at a node whose verdict was None
C17_Witness ==
  \E call \in oracle_calls :
    /\ call[2] = nullptr
    /\ LoopUniqueAccess(ptrs[call[3]])
    /\ accessed_pointer_[call[1]] = nullptr

\* C18: the keys of the verdict map are the candidate nodes of the visited
\* accesses; a verdict Some(r) names the first visited access that can
\* address the node, that access is loop-unique, and the oracle was asked
\* about r and every later access that can address the node and said yes.
C18_FinalVerdicts ==
  pc = "searcher" =>
    /\ DOMAIN accessed_pointer_ =
         UNION {{ptrs[id].snodes[k] : k \in 1..Len(ptrs[id].snodes)} : id \in 1..Len(ptrs)}
    /\ \A snode \in DOMAIN accessed_pointer_ :
         LET r == accessed_pointer_[snode]
             touches(id) == \E k \in 1..Len(ptrs[id].snodes) : ptrs[id].snodes[k] = snode
         IN  r # nullptr =>
               /\ r \in 1..Len(ptrs)
               /\ touches(r)
               /\ \A id \in 1..(r - 1) : ~touches(id)
               /\ LoopUniqueAccess(ptrs[r])
               /\ \A a \in (r + 1)..Len(ptrs) :
                    touches(a) =>
                      /\ <<snode, r, a>> \in oracle_calls
                      /\ same_address[<<r, a>>]

\* three accesses: f1 has kept its first access after two more that the
\* oracle found at the same address, f2 the second access after one more
C18_Witness ==
  /\ Len(ptrs) = 3
  /\ ptrs[1].snodes = <<"f1">>
  /\ ptrs[2].snodes = <<"f2", "f1">>
  /\ ptrs[3].snodes = <<"f1", "f2">>
  /\ accessed_pointer_ = ("f1" :> 1) @@ ("f2" :> 2)

\* C19: the first access of a body, when none of its indices is tagged, is
\* judged loop-unique and recorded as Some in a serial task (dimension
\* count 0), and judged not loop-unique and recorded as None in a range_for
\* or mesh_for task (dimension count 1).
C19_UntaggedAccess ==
  (/\ pc = "searcher"
   /\ Len(ptrs) = 1
   /\ \A k \in 1..Len(ptrs[1].indices) : ~Tagged(ptrs[1].indices[k])) =>
    /\ root.task_type = "serial" =>
         /\ num_different_loop_indices = 0
         /\ is_ptr_indices_loop_unique(loop_unique_stmt_searcher_, ptrs[1])
         /\ accessed_pointer_ = ("f1" :> 1)
    /\ root.task_type \in {"range_for", "mesh_for"} =>
         /\ num_different_loop_indices = 1
         /\ ~is_ptr_indices_loop_unique(loop_unique_stmt_searcher_, ptrs[1])
         /\ accessed_pointer_ = ("f1" :> nullptr)

\* an access indexed by two constants is the representative of its node in
\* a serial task
C19_Witness ==
  /\ pc = "searcher"
  /\ root.task_type = "serial"
  /\ Len(ptrs) = 1 /\ ptrs[1].indices = <<4, 5>>
  /\ accessed_pointer_ = ("f1" :> 1)

----------------------------------------------------------------------------
(* Further properties of the Propagator.                                   *)

\* C20: after every step of the traversal no statement is both invariant
\* and tagged unique, so the two tagging branches of a binary operation
\* (unique op invariant, invariant op unique) never both apply to it.
C20_DisjointClassification ==
  /\ loop_invariant_ \cap DOMAIN loop_unique_ = {}
  /\ \A id \in 1..Len(body) :
       body[id].kind = "BinaryOpStmt" =>
         ~(/\ Tagged(body[id].lhs) /\ Invariant(body[id].rhs)
           /\ Invariant(body[id].lhs) /\ Tagged(body[id].rhs))

\* a constant, a loop index and their xor have been passed: the constant is
\* invariant only, the xor tagged only, by the second tagging branch alone
C20_Witness ==
  /\ Len(body) = 3
  /\ body[1].kind = "ConstStmt" /\ Invariant(1) /\ ~Tagged(1)
  /\ body[2].kind = "LoopIndexStmt" /\ Tagged(2) /\ ~Invariant(2)
  /\ body[3].kind = "BinaryOpStmt" /\ body[3].op_type = "bit_xor"
  /\ body[3].lhs = 1 /\ body[3].rhs = 2
  /\ Tagged(3) /\ ~Invariant(3)

----------------------------------------------------------------------------
(* Two runs over the same root.                                            *)

====
